---- MODULE Spec2Model ----
(***************************************************************************)
(* Model of solve_mtsp (src/optimization/solver.py): the M-TSP itinerary   *)
(* model, the status test after the solve, the day-wise route decoder and  *)
(* the totals.  The MILP engine (OR-Tools CBC) is opaque: a solve that     *)
(* reports OPTIMAL or FEASIBLE hands back SOME assignment of the decision  *)
(* variables that satisfies every constraint the function added; OPTIMAL   *)
(* additionally maximises the objective.                                   *)
(*                                                                         *)
(* Numbers are integers: fees in rupees, times in hours, distances in km.  *)
(* Distances are multiples of the speed, so dist / avg_speed_kmph is exact.*)
(* Attraction indices are 0..n-1 as in the code; day d of the code is      *)
(* itinerary[d+1] here (TLA+ sequences start at 1).                        *)
(***************************************************************************)
EXTENDS Integers, Sequences, FiniteSets, TLC

\* ------------------------------------------------------------------ bounds
MaxN    == 4      \* attractions in the dataset: 1..MaxN
MaxDays == 2      \* days: 0..MaxDays (0 violates the precondition days >= 1)

\* ------------------------------------------------- defaults of solve_mtsp
avg_speed_default  == 20
travel_cost_per_km == 20
AlphaNum == 1     \* alpha = AlphaNum / AlphaDen = 0.01
AlphaDen == 100

\* ------------------------------------------------------- input value sets
AllNames   == <<"A", "B", "C", "D", "E">>
Budgets    == {100, 200}        \* budget_day > 0
TimeDays   == {3, 5, 8}         \* time_day > 0
BadBudgets == {-100, 0}         \* budget_day <= 0
BadTimes   == {0}               \* time_day <= 0
BadSpeeds  == {0}               \* avg_speed_kmph <= 0
DistKinds  == {"hub", "oneway"}
Statuses   == {"OPTIMAL", "FEASIBLE", "INFEASIBLE", "NOT_SOLVED"}

Nodes(nn) == 0 .. (nn - 1)
Arcs(nn)  == {p \in Nodes(nn) \X Nodes(nn) : p[1] # p[2]}

\* names = list(attractions["name"].values): index -> name
NameOf(i) == AllNames[i + 1]

\* visit_time = attractions["avg_time_hr"]: one hour per attraction
VisitTimeOf(i) == 1

\* fun = fun_score * weight(category), already weighted
FunOf(i) == i + 1

\* entry_fee of the datasets: the first `paid` attractions charge 100
FeeTable(paid, nn) == [i \in Nodes(nn) |-> IF i < paid THEN 100 ELSE 0]

\* the distance matrices of the datasets, m x m, in km: "hub" is symmetric
\* (20 km to and from attraction 0, 40 km between the others), "oneway" is
\* not (20 km towards the higher index, 40 km back)
DistMatrix(kind, mm) ==
  [p \in Nodes(mm) \X Nodes(mm) |->
     IF p[1] = p[2] THEN 0
     ELSE IF kind = "hub" THEN (IF p[1] = 0 \/ p[2] = 0 THEN 20 ELSE 40)
     ELSE (IF p[1] < p[2] THEN 20 ELSE 40)]

VARIABLES
  pc,              \* position in solve_mtsp
  n,               \* len(names)
  m,               \* rows = columns of the distance matrix
  dist,            \* the distance matrix
  fee,             \* entry_fee per attraction
  days, budget_day, time_day, avg_speed_kmph,
  status,          \* what solver.Solve() returned
  x,               \* {<<i, j, d>>} : x[i,j,d].solution_value() > 0.5
  y,               \* {<<i, d>>}    : y[i,d].solution_value() > 0.5
  itinerary, total_cost, total_fun, total_dist,
  err,             \* the exception raised, "" when none
  reads            \* TRUE once a solution_value() was read

inputs == <<n, m, dist, fee, days, budget_day, time_day, avg_speed_kmph>>
outputs == <<itinerary, total_cost, total_fun, total_dist>>
vars == <<pc, inputs, status, x, y, outputs, err, reads>>

Days == 0 .. (days - 1)
Bit(b) == IF b THEN 1 ELSE 0

RECURSIVE SumF(_, _)
SumF(f, S) ==
  IF S = {} THEN 0
  ELSE LET e == CHOOSE e \in S : TRUE IN f[e] + SumF(f, S \ {e})

\* travel_time = dist / float(avg_speed_kmph) if avg_speed_kmph else dist.copy()
TravelTime(a) ==
  IF avg_speed_kmph # 0 THEN dist[a] \div avg_speed_kmph ELSE dist[a]

\* ------------------------------------------------------------ constraints
\* A day's part of an assignment is a record [y |-> the attractions visited
\* that day, x |-> the arcs <<i, j>> used that day].

\* (1) without its lower bound: a visited attraction needs no arc
FlowConnectivityUpperOnly(nn, yd, xd) ==
  \A i \in Nodes(nn) :
    LET in_sum  == Cardinality({a \in xd : a[2] = i})
        out_sum == Cardinality({a \in xd : a[1] = i})
    IN  in_sum + out_sum <= 2 * Bit(i \in yd)

\* (1) in_sum + out_sum >= y[i,d]  and  in_sum + out_sum <= 2 * y[i,d]
FlowConnectivity(nn, yd, xd) ==
  \A i \in Nodes(nn) :
    LET in_sum  == Cardinality({a \in xd : a[2] = i})
        out_sum == Cardinality({a \in xd : a[1] = i})
    IN  /\ in_sum + out_sum >= Bit(i \in yd)
        /\ in_sum + out_sum <= 2 * Bit(i \in yd)

\* (2) Sum_d y[i,d] <= 1
VisitedAtMostOnce(nn, dd, yy) ==
  \A i \in Nodes(nn) : Cardinality({d \in 0 .. (dd - 1) : <<i, d>> \in yy}) <= 1

\* (3) visit_expr + travel_expr <= time_day
DailyTime(yd, xd) ==
  SumF([i \in yd |-> VisitTimeOf(i)], yd) + SumF([a \in xd |-> TravelTime(a)], xd)
    <= time_day

\* (4) with one entry fee of slack
DailyBudgetSlack(yd) == SumF(fee, yd) <= budget_day + 100

\* (4) Sum_i fee[i] * y[i,d] <= budget_day
DailyBudget(yd) == SumF(fee, yd) <= budget_day

\* (5) with the right-hand side n for n - 1
MTZWeak(nn, xd, ud, i, j) ==
  ud[i] - ud[j] + nn * Bit(<<i, j>> \in xd) <= nn

\* (5) u[i,d] - u[j,d] + n * x[i,j,d] <= n - 1, for one pair i # j
MTZ(nn, xd, ud, i, j) ==
  ud[i] - ud[j] + nn * Bit(<<i, j>> \in xd) <= nn - 1

\* (6) u[i,d] >= y[i,d]  and  u[i,d] <= n * y[i,d], for one i
UBounds(nn, yd, ud, i) ==
  ud[i] >= Bit(i \in yd) /\ ud[i] <= nn * Bit(i \in yd)

\* u[i,d] = IntVar(0, n): the ranks ud of attractions 0..k-1 extend to ranks
\* of all n attractions that satisfy (5) and (6).  Attraction k takes a value
\* of 0..n that satisfies (6) and, against every attraction ranked before it,
\* (5) in both directions.
RECURSIVE OrderExtends(_, _, _, _, _)
OrderExtends(nn, yd, xd, ud, k) ==
  IF k >= nn THEN TRUE
  ELSE \E v \in 0 .. nn :
         LET u2 == [i \in 0 .. k |-> IF i = k THEN v ELSE ud[i]]
         IN  /\ UBounds(nn, yd, u2, k)
             /\ \A i \in 0 .. (k - 1) :
                  MTZ(nn, xd, u2, i, k) /\ MTZ(nn, xd, u2, k, i)
             /\ OrderExtends(nn, yd, xd, u2, k + 1)

\* some u satisfies (5) and (6)
OrderExists(nn, yd, xd) == OrderExtends(nn, yd, xd, <<>>, 0)

\* the subsets of S with at most k elements
RECURSIVE SubsetsUpTo(_, _)
SubsetsUpTo(S, k) ==
  IF k = 0 \/ S = {} THEN {{}}
  ELSE LET e == CHOOSE e \in S : TRUE
       IN  SubsetsUpTo(S \ {e}, k)
             \cup {s \cup {e} : s \in SubsetsUpTo(S \ {e}, k - 1)}

\* The per-day parts [y |-> visits, x |-> arcs] that satisfy (1), (5) and (6);
\* they depend on n alone.  (1) summed over i bounds the arcs of a day by n,
\* so larger arc sets are not enumerated; {b : b \in ...} has the set
\* enumerated once.
DayShapes ==
  [nn \in 0 .. MaxN |->
     {b : b \in {a \in [y : SUBSET Nodes(nn), x : SubsetsUpTo(Arcs(nn), nn)] :
                   FlowConnectivity(nn, a.y, a.x) /\ OrderExists(nn, a.y, a.x)}}]

\* ... and (3) and (4) with this call's data
DayFeasible == {a \in DayShapes[n] : DailyTime(a.y, a.x) /\ DailyBudget(a.y)}

\* y over days 0..dd-1: each day the visits of a part in DF, and (2)
RECURSIVE VisitsUpTo(_, _)
VisitsUpTo(DF, dd) ==
  IF dd <= 0 THEN {{}}
  ELSE {yy \in {q[1] \cup {<<i, dd - 1>> : i \in q[2]} :
                  q \in VisitsUpTo(DF, dd - 1) \X {a.y : a \in DF}} :
          VisitedAtMostOnce(n, dd, yy)}

\* x over days 0..dd-1 for the visits yy: each day the arcs of a part in DF
\* with that day's visits
RECURSIVE ArcsUpTo(_, _, _)
ArcsUpTo(DF, yy, dd) ==
  IF dd <= 0 THEN {{}}
  ELSE LET yd == {i \in Nodes(n) : <<i, dd - 1>> \in yy}
       IN  {q[1] \cup {<<p[1], p[2], dd - 1>> : p \in q[2]} :
              q \in ArcsUpTo(DF, yy, dd - 1)
                      \X {a.x : a \in {c \in DF : c.y = yd}}}

\* All assignments [y |-> {<<i, d>>}, x |-> {<<i, j, d>>}] of the variables
\* that satisfy (1)-(6): every day's part is feasible, and (2) holds.
FeasibleFrom(DF) ==
  UNION {{[y |-> yy, x |-> xx] : xx \in ArcsUpTo(DF, yy, days)} :
           yy \in VisitsUpTo(DF, days)}

Feasible == FeasibleFrom({a : a \in DayFeasible})

\* Constraints (1)-(6) of an assignment, day by day as the code adds them
Constraints(yy, xx) ==
  /\ VisitedAtMostOnce(n, days, yy)
  /\ \A d \in Days :
       LET yd == {i \in Nodes(n) : <<i, d>> \in yy}
           xd == {<<t[1], t[2]>> : t \in {t \in xx : t[3] = d}}
       IN  /\ FlowConnectivity(n, yd, xd)
           /\ DailyTime(yd, xd)
           /\ DailyBudget(yd)
           /\ OrderExists(n, yd, xd)

\* maximize Sum fun[i]*y[i,d] - alpha * Sum dist[i,j]*x[i,j,d]   (times AlphaDen)
Objective(a) ==
  AlphaDen * SumF([v \in a.y |-> FunOf(v[1])], a.y)
    - AlphaNum * SumF([t \in a.x |-> dist[<<t[1], t[2]>>]], a.x)

\* the assignments of F no other assignment of F beats
Optimal(F) ==
  LET values == {Objective(a) : a \in F}
      best   == CHOOSE v \in values : \A w \in values : w <= v
  IN  {a \in F : Objective(a) = best}

\* ---------------------------------------------------------------- decoder
RECURSIVE SortedSeq(_)
SortedSeq(S) ==
  IF S = {} THEN <<>>
  ELSE LET lo == CHOOSE e \in S : \A o \in S : e <= o
       IN  <<lo>> \o SortedSeq(S \ {lo})

\* adj_per_day[d]: i -> the list of j with x[i,j,d] true, j ascending
AdjPerDay(xx, d) ==
  [i \in {t[1] : t \in {t \in xx : t[3] = d}} |->
     SortedSeq({t[2] : t \in {t \in xx : t[3] = d /\ t[1] = i}})]

\* succ[i] = succs[0]
SuccOf(xx, d) ==
  LET adj == AdjPerDay(xx, d)
  IN  [i \in {k \in DOMAIN adj : adj[k] # <<>>} |-> adj[i][1]]

\* assigned, read without the day: every attraction visited on some day
AssignedAnyDay(yy, d) == {i \in Nodes(n) : \E dd \in Days : <<i, dd>> \in yy}

\* assigned = [i for i in range(n) if y[i,d] true]
Assigned(yy, d) == {i \in Nodes(n) : <<i, d>> \in yy}

\* the while loop: walk the successor chain from cur
RECURSIVE Walk(_, _, _, _)
Walk(cur, visited, chain, succ) ==
  IF cur \in visited \/ cur \notin Nodes(n)
  THEN [visited |-> visited, chain |-> chain]
  ELSE LET v2 == visited \cup {cur}
           c2 == Append(chain, NameOf(cur))
       IN  IF cur \in DOMAIN succ
           THEN Walk(succ[cur], v2, c2, succ)
           ELSE [visited |-> v2, chain |-> c2]

\* for start in assigned: ... day_routes.append(chain)
RECURSIVE DayRoutes(_, _, _, _, _)
DayRoutes(start, assigned, succ, visited, routes) ==
  IF start >= n THEN routes
  ELSE IF start \notin assigned \/ start \in visited
       THEN DayRoutes(start + 1, assigned, succ, visited, routes)
       ELSE LET w == Walk(start, visited, <<>>, succ)
            IN  DayRoutes(start + 1, assigned, succ, w.visited,
                          Append(routes, w.chain))

\* flat = [] ; for c in day_routes: flat.extend(c)
RECURSIVE Flatten(_)
Flatten(routes) ==
  IF routes = <<>> THEN <<>> ELSE Head(routes) \o Flatten(Tail(routes))

DecodeDay(xx, yy, d) ==
  Flatten(DayRoutes(0, Assigned(yy, d), SuccOf(xx, d), {}, <<>>))

Decode(xx, yy) == [k \in 1 .. days |-> DecodeDay(xx, yy, k - 1)]

\* ----------------------------------------------------------------- totals
TotalEntryCost(yy) == SumF([v \in yy |-> fee[v[1]]], yy)
TotalFun(yy)       == SumF([v \in yy |-> FunOf(v[1])], yy)
TotalDist(xx)      == SumF([t \in xx |-> dist[<<t[1], t[2]>>]], xx)
TotalCost(xx, yy)  == TotalEntryCost(yy) + TotalDist(xx) * travel_cost_per_km

\* the status test with NOT_SOLVED taken for a solution
HasSolutionOrNotSolved(st) == st \in {"OPTIMAL", "FEASIBLE", "NOT_SOLVED"}

\* status in (OPTIMAL, FEASIBLE)
HasSolution(st) == st \in {"OPTIMAL", "FEASIBLE"}

\* dist[i, j] is read for every i # j < n when the objective is built
IndexFault == days >= 1 /\ \E a \in Arcs(n) : a \notin DOMAIN dist

\* ---------------------------------------------------------------- actions
\* The preconditions of the request: len(attractions) = rows = cols,
\* days >= 1, budget_day > 0, time_day > 0, avg_speed_kmph > 0.
Preconditions ==
  /\ m = n
  /\ days >= 1
  /\ budget_day > 0
  /\ time_day > 0
  /\ avg_speed_kmph > 0

\* Calls that meet the preconditions.
ValidCall ==
  /\ m = n
  /\ days \in 1 .. MaxDays
  /\ budget_day \in Budgets
  /\ time_day \in TimeDays
  /\ avg_speed_kmph = avg_speed_default

\* Calls that break one precondition, the other arguments as in a one-day
\* call with a budget of 100 and a five-hour day.
InvalidCall ==
  \E broken \in {"rows", "days", "budget", "time", "speed"} :
    /\ m \in IF broken = "rows" THEN {n - 1, n + 1} ELSE {n}
    /\ days \in IF broken = "days" THEN {0} ELSE {1}
    /\ budget_day \in IF broken = "budget" THEN BadBudgets ELSE {100}
    /\ time_day \in IF broken = "time" THEN BadTimes ELSE {5}
    /\ avg_speed_kmph \in IF broken = "speed" THEN BadSpeeds
                          ELSE {avg_speed_default}

Init ==
  /\ pc = "start"
  /\ n \in 1 .. MaxN
  /\ \E paid \in 0 .. n : fee = FeeTable(paid, n)
  /\ ValidCall \/ InvalidCall
  /\ \E kind \in DistKinds : dist = DistMatrix(kind, m)
  /\ status = "NONE"
  /\ x = {} /\ y = {}
  /\ itinerary = <<>> /\ total_cost = 0 /\ total_fun = 0 /\ total_dist = 0
  /\ err = ""
  /\ reads = FALSE

\* solver = CreateSolver("CBC"); if solver is None: raise RuntimeError
CreateSolverFails ==
  /\ pc = "start"
  /\ pc' = "raised" /\ err' = "RuntimeError"
  /\ UNCHANGED <<inputs, status, x, y, outputs, reads>>

\* variables, objective and constraints (1)-(6)
BuildModel ==
  /\ pc = "start"
  /\ IF IndexFault
     THEN pc' = "raised" /\ err' = "IndexError"
     ELSE pc' = "built" /\ err' = err
  /\ UNCHANGED <<inputs, status, x, y, outputs, reads>>

\* status = solver.Solve()
Solve ==
  /\ pc = "built"
  /\ pc' = "solved"
  /\ LET F == Feasible IN
       \/ /\ status' = "NOT_SOLVED" /\ x' = {} /\ y' = {}
       \/ /\ F = {}
          /\ status' = "INFEASIBLE" /\ x' = {} /\ y' = {}
       \/ \E a \in F :
            /\ status' = "FEASIBLE" /\ x' = a.x /\ y' = a.y
       \/ \E a \in Optimal(F) :
            /\ status' = "OPTIMAL" /\ x' = a.x /\ y' = a.y
  /\ UNCHANGED <<inputs, outputs, err, reads>>

\* if status not in (OPTIMAL, FEASIBLE): return [[] ...], 0.0, 0.0, 0.0
SoftFailure ==
  /\ pc = "solved" /\ ~HasSolution(status)
  /\ itinerary' = [k \in 1 .. days |-> <<>>]
  /\ total_cost' = 0 /\ total_fun' = 0 /\ total_dist' = 0
  /\ pc' = "returned"
  /\ UNCHANGED <<inputs, status, x, y, err, reads>>

\* extract adjacency per day, reconstruct day-wise routes, totals,
\* return itinerary, total_cost, total_fun, total_dist
DecodeAndReturn ==
  /\ pc = "solved" /\ HasSolution(status)
  /\ itinerary' = Decode(x, y)
  /\ reads' = TRUE
  /\ total_cost' = TotalCost(x, y)
  /\ total_fun' = TotalFun(y)
  /\ total_dist' = TotalDist(x)
  /\ pc' = "returned"
  /\ UNCHANGED <<inputs, status, x, y, err>>

Next ==
  \/ CreateSolverFails
  \/ BuildModel
  \/ Solve
  \/ SoftFailure
  \/ DecodeAndReturn

Spec == Init /\ [][Next]_vars

TypeOK ==
  /\ pc \in {"start", "raised", "built", "solved", "returned"}
  /\ status \in Statuses \cup {"NONE"}

\* what OPTIMAL and FEASIBLE hand back satisfies every constraint
SolutionSatisfiesConstraints ==
  (status \in {"OPTIMAL", "FEASIBLE"}) => Constraints(y, x)

\* ================================================================ claims
Solved   == status \in {"OPTIMAL", "FEASIBLE"}
Returned == pc = "returned"
Route(d) == itinerary[d + 1]
NamesIn(seq) == {seq[k] : k \in DOMAIN seq}
IndexOf(name) == CHOOSE i \in Nodes(n) : NameOf(i) = name
\* the k-th consecutive pair of a route, as attraction indices
Leg(seq, k) == <<IndexOf(seq[k]), IndexOf(seq[k + 1])>>
Legs(seq) == 1 .. (Len(seq) - 1)
DayArcs(d) == {<<t[1], t[2]>> : t \in {t \in x : t[3] = d}}

RECURSIVE Closure(_)
Closure(R) ==
  LET R2 == R \cup {<<q[1][1], q[2][2]>> :
                      q \in {q \in R \X R : q[1][2] = q[2][1]}}
  IN  IF R2 = R THEN R ELSE Closure(R2)

HasCycle(E) == \E a \in Closure(E) : a[1] = a[2]

\* C1: in a result returned from an OPTIMAL or FEASIBLE solve, no name
\* appears twice within a day's sequence and no name appears in the
\* sequences of two different days.
C1_NoNameTwice ==
  (Returned /\ Solved) =>
    /\ \A d \in Days : \A k1, k2 \in DOMAIN Route(d) :
         k1 # k2 => Route(d)[k1] # Route(d)[k2]
    /\ \A d1, d2 \in Days :
         d1 # d2 => NamesIn(Route(d1)) \cap NamesIn(Route(d2)) = {}

\* a returned itinerary with two days that both list attractions
C1_Witness ==
  /\ Returned /\ Solved
  /\ \E d1, d2 \in Days : d1 # d2 /\ Route(d1) # <<>> /\ Route(d2) # <<>>

\* C2: in a returned result, each day's sequence names exactly the
\* attractions assigned to that day, and their entry fees sum to at most
\* budget_day.
C2_DayBudget ==
  (Returned /\ Solved) =>
    \A d \in Days :
      /\ NamesIn(Route(d)) = {NameOf(i) : i \in Assigned(y, d)}
      /\ SumF([k \in DOMAIN Route(d) |-> fee[IndexOf(Route(d)[k])]],
              DOMAIN Route(d)) <= budget_day

\* a returned day whose fees use the whole budget, beside an attraction that
\* charges and is left out
C2_Witness ==
  /\ Returned /\ Solved /\ budget_day > 0
  /\ \E d \in Days :
       /\ SumF([k \in DOMAIN Route(d) |-> fee[IndexOf(Route(d)[k])]],
               DOMAIN Route(d)) = budget_day
       /\ \E i \in Nodes(n) : fee[i] > 0 /\ \A dd \in Days : <<i, dd>> \notin y

\* C3 (as claimed): in a returned result, each day's visit times plus the
\* travel times between consecutive names of the day's sequence are at most
\* time_day.
C3_RouteTime ==
  (Returned /\ Solved) =>
    \A d \in Days :
      SumF([k \in DOMAIN Route(d) |-> VisitTimeOf(IndexOf(Route(d)[k]))],
           DOMAIN Route(d))
        + SumF([k \in Legs(Route(d)) |-> TravelTime(Leg(Route(d), k))],
               Legs(Route(d)))
        <= time_day

\* C4 (as claimed): the returned total_distance is the sum of dist[a][b] over
\* the consecutive names of every day's sequence.
C4_RouteDistance ==
  (Returned /\ Solved) =>
    total_dist =
      SumF([d \in Days |->
              SumF([k \in Legs(Route(d)) |-> dist[Leg(Route(d), k)]],
                   Legs(Route(d)))],
           Days)

\* C5: when the engine reports INFEASIBLE or no solution (any status but
\* OPTIMAL and FEASIBLE), solve_mtsp raises nothing, reads no solution value
\* and returns `days` empty lists with all totals 0.
C5_SoftFailure ==
  (pc \in {"solved", "returned"} /\ status \in {"INFEASIBLE", "NOT_SOLVED"}) =>
    /\ err = ""
    /\ ~reads
    /\ Returned =>
         /\ itinerary = [k \in 1 .. days |-> <<>>]
         /\ total_cost = 0 /\ total_fun = 0 /\ total_dist = 0

\* the empty result of `days` lists returned after an infeasible model
C5_Witness ==
  /\ Returned /\ status = "INFEASIBLE" /\ days >= 1 /\ Len(itinerary) = days

\* C6 (as claimed): a call that breaks a precondition fails before a model is
\* built or solved and never returns a result.
C6_FailFast ==
  ~Preconditions => pc \in {"start", "raised"}

\* C7 (as claimed): whenever arc i -> j is used on day d, the day's sequence
\* lists name j immediately after name i.
C7_ArcsInOrder ==
  (Returned /\ Solved) =>
    \A t \in x :
      \E k \in Legs(Route(t[3])) : Leg(Route(t[3]), k) = <<t[1], t[2]>>

\* C8 (as claimed): in every assignment the engine returns, each attraction
\* has at most one outgoing arc per day.
C8_OneSuccessor ==
  Solved =>
    \A d \in Days : \A i \in Nodes(n) :
      Cardinality({a \in DayArcs(d) : a[1] = i}) <= 1

\* C9: in every assignment the engine returns, the arcs of a day contain no
\* directed cycle (while an open path through all attractions of a day is
\* among the assignments it can return: C9_Witness).
C9_NoClosedLoop ==
  Solved => \A d \in Days : ~HasCycle(DayArcs(d))

\* a day whose arcs form one open path through its three or more attractions
C9_Witness ==
  /\ Solved
  /\ \E d \in Days :
       /\ Cardinality(Assigned(y, d)) >= 3
       /\ Cardinality(DayArcs(d)) = Cardinality(Assigned(y, d)) - 1
       /\ \A i \in Assigned(y, d) :
            /\ Cardinality({a \in DayArcs(d) : a[1] = i}) <= 1
            /\ Cardinality({a \in DayArcs(d) : a[2] = i}) <= 1

\* C10: no day of a returned itinerary lists exactly one attraction, and a
\* dataset of one attraction gives an all-empty itinerary.
C10_NoLoneAttraction ==
  (Returned /\ Solved) =>
    /\ \A d \in Days : Len(Route(d)) # 1
    /\ n = 1 => \A d \in Days : Route(d) = <<>>

\* a returned itinerary with a day of two attractions and an attraction that
\* no day lists, although the day's time and budget would admit it alone
C10_Witness ==
  /\ Returned /\ Solved
  /\ \E d \in Days : Len(Route(d)) = 2
  /\ \E i \in Nodes(n) :
       /\ \A dd \in Days : <<i, dd>> \notin y
       /\ fee[i] <= budget_day /\ VisitTimeOf(i) <= time_day
  /\ \E d \in Days : Route(d) = <<>>

====
